---- MODULE Spec2Model ----
(***************************************************************************)
(* Model of glossary_updater: the Configuration Merge Engine               *)
(* (glossary_updater/merger.py), the GlossaryTerm projection               *)
(* (glossary_updater/processor.py) and the orchestration step              *)
(* GlossaryUpdater.update_from_files (glossary_updater/main.py).           *)
(*                                                                         *)
(* Python dicts are records with a field `keys` holding the keys that are  *)
(* present; a field whose key is absent holds a default that is never read *)
(* without asking Has first.  Python objects that are mutated in place     *)
(* (the configuration documents) live in `heap`, addressed by reference.   *)
(***************************************************************************)
EXTENDS Integers, Sequences, FiniteSets, TLC

\* ------------------------------------------------------------------ bounds
MaxStored == 2      \* stored glossary items in an input document
MaxNew == 2         \* terms handed to one merge call

\* --------------------------------------------------------------- constants
glossary_entity_id == "676c6f73-7361-7279-3132-333435363738"

NoneValue == "<None>"       \* Python None where a string is expected
EmptyDict == "{}"           \* metadata: the empty mapping
SomeMeta == "{category}"    \* metadata: a non-empty mapping

\* ------------------------------------------------------------ str methods
\* str.lower() on the strings of the model
lower(s) ==
    CASE s = "API" -> "api"
      [] s = " API " -> " api "
      [] s = "REST" -> "rest"
      [] s = "Glossary" -> "glossary"
      [] s = "GLOSSARY" -> "glossary"
      [] s = "Other" -> "other"
      [] s = "Terms" -> "terms"
      [] s = ".CSV" -> ".csv"
      [] OTHER -> s

\* str.strip() on the strings of the model
strip(s) ==
    CASE s = " API " -> "API"
      [] s = " api " -> "api"
      [] s = "  " -> ""
      [] OTHER -> s

\* truth value of a Python string or None
Truthy(s) == s \notin {"", NoneValue}

Has(d, k) == k \in d.keys

\* ------------------------------------------------------- sequence helpers
SeqsUpTo(S, n) == UNION {[1..k -> S] : k \in 0..n}

Range(s) == {s[i] : i \in 1..Len(s)}

RECURSIVE Concat(_)
Concat(ss) == IF ss = <<>> THEN <<>> ELSE Head(ss) \o Concat(Tail(ss))

\* --------------------------------------------------------- GlossaryTerm
\* GlossaryTerm.__init__: phrase, definition, metadata or {}
GlossaryTerm(phrase, definition, metadata) ==
    [phrase |-> phrase, definition |-> definition,
     metadata |-> IF metadata \in {EmptyDict, NoneValue} THEN EmptyDict ELSE metadata]

\* to_dict losing the metadata of the term
to_dictWithoutMetadata(term) ==
    [keys |-> {"phrase", "definition"},
     phrase |-> term.phrase,
     definition |-> term.definition,
     metadata |-> EmptyDict]

\* GlossaryTerm.to_dict: metadata is written only when it is non-empty
to_dict(term) ==
    [keys |-> {"phrase", "definition"} \cup
              (IF term.metadata # EmptyDict THEN {"metadata"} ELSE {}),
     phrase |-> term.phrase,
     definition |-> term.definition,
     metadata |-> term.metadata]

\* ------------------------------------------------- document constructors
\* an element of analysisEntityList
Entity(id, name, type, resources) ==
    [keys |-> {"id", "name", "type", "enabled", "resources"},
     id |-> id, name |-> name, type |-> type, enabled |-> TRUE,
     resources |-> resources]

\* a resourceList element holding one term (flat encoding)
FlatResource(id, item) ==
    [keys |-> {"id", "phrase", "definition"}, id |-> id, type |-> "",
     phrase |-> item.phrase, definition |-> item.definition,
     glossary |-> <<>>, terms |-> <<>>]

\* a resourceList element holding all terms (bundle encoding)
BundleResource(id, items) ==
    [keys |-> {"id", "glossary"}, id |-> id, type |-> "",
     phrase |-> "", definition |-> "",
     glossary |-> items, terms |-> <<>>]

\* a resourceList element with a legacy `terms` mapping phrase -> definition
LegacyResource(id, items) ==
    [keys |-> {"id", "terms"}, id |-> id, type |-> "",
     phrase |-> "", definition |-> "",
     glossary |-> <<>>, terms |-> items]

\* a resourceList element that holds no glossary data
PlainResource(id) ==
    [keys |-> {"id"}, id |-> id, type |-> "",
     phrase |-> "", definition |-> "",
     glossary |-> <<>>, terms |-> <<>>]

\* the value of a document's `data` key when the key is absent
NoData == [keys |-> {}, analysisEntityList |-> <<>>, resourceList |-> <<>>]

\* a document with the entity list and the resource list at top level
Document(keys, entities, resources) ==
    [keys |-> keys, analysisEntityList |-> entities, resourceList |-> resources,
     data |-> NoData]

\* a document with the entity list and the resource list under `data`
NestedDocument(entities, resources) ==
    [keys |-> {"configurationId", "data"},
     analysisEntityList |-> <<>>, resourceList |-> <<>>,
     data |-> [keys |-> {"analysisEntityList", "resourceList"},
               analysisEntityList |-> entities, resourceList |-> resources]]

\* config.get("analysisEntityList", []) / config.get("resourceList", [])
GetEntityList(config) ==
    IF Has(config, "analysisEntityList") THEN config.analysisEntityList ELSE <<>>

GetResourceList(config) ==
    IF Has(config, "resourceList") THEN config.resourceList ELSE <<>>

\* entity.get("resources", [])
GetResources(entity) ==
    IF Has(entity, "resources") THEN entity.resources ELSE <<>>

\* entity.get("name", "")
GetName(entity) == IF Has(entity, "name") THEN entity.name ELSE ""

\* entity.get("type")
GetType(entity) == IF Has(entity, "type") THEN entity.type ELSE NoneValue

\* entity.get("id") / resource.get("id")
GetId(d) == IF Has(d, "id") THEN d.id ELSE NoneValue

\* ------------------------------------------------ ConfigurationValidator
\* the test `type == "glossary" or name.lower() == "glossary"` of
\* _validate_entity_list; name.lower() raises when name is None
IsGlossaryEntityForValidator(entity) ==
    GetType(entity) = "glossary" \/ lower(GetName(entity)) = "glossary"

ValidatorRaises(entity) ==
    GetType(entity) # "glossary" /\ GetName(entity) = NoneValue

\* ConfigurationValidator._validate_glossary_entity
_validate_glossary_entity(entity) ==
    IF {"id", "name", "type", "resources"} \subseteq entity.keys
    THEN {} ELSE {"glossary_entity_missing_field"}

\* ConfigurationValidator._validate_entity_list
_validate_entity_list(entity_list) ==
    LET n == Len(entity_list)
        missing == {"entity_missing_field" : i \in
                      {j \in 1..n : ~({"id", "name"} \subseteq entity_list[j].keys)}}
        dup == {"duplicate_entity_id" : i \in
                  {j \in 1..n : /\ GetId(entity_list[j]) \notin {NoneValue, ""}
                                /\ \E k \in 1..(j - 1) :
                                     GetId(entity_list[k]) = GetId(entity_list[j])}}
        gloss == UNION {_validate_glossary_entity(entity_list[j]) : j \in
                  {j \in 1..n : IsGlossaryEntityForValidator(entity_list[j])}}
    IN  missing \cup dup \cup gloss

\* ConfigurationValidator._validate_glossary_resource
_validate_glossary_resource(resource) ==
    {"glossary_term_missing_field" : i \in
       {j \in 1..Len(resource.glossary) :
          ~({"phrase", "definition"} \subseteq resource.glossary[j].keys)}}

\* ConfigurationValidator._validate_resource_list
_validate_resource_list(resource_list) ==
    LET n == Len(resource_list)
        missing == {"resource_missing_field" : i \in
                      {j \in 1..n : ~Has(resource_list[j], "id")}}
        dup == {"duplicate_resource_id" : i \in
                  {j \in 1..n : /\ GetId(resource_list[j]) \notin {NoneValue, ""}
                                /\ \E k \in 1..(j - 1) :
                                     GetId(resource_list[k]) = GetId(resource_list[j])}}
        gloss == UNION {_validate_glossary_resource(resource_list[j]) : j \in
                  {j \in 1..n : /\ resource_list[j].type = "glossary"
                                /\ Has(resource_list[j], "glossary")}}
    IN  missing \cup dup \cup gloss

\* a cross-reference check that reports nothing
_validate_cross_referencesNothing(config) == {}

\* ConfigurationValidator._validate_cross_references
_validate_cross_references(config) ==
    LET resource_list == GetResourceList(config)
        resource_ids == {resource_list[j].id : j \in
                           {k \in 1..Len(resource_list) : Has(resource_list[k], "id")}}
        entity_list == GetEntityList(config)
    IN  {"dangling_reference" : i \in
           {j \in 1..Len(entity_list) :
              \E r \in Range(GetResources(entity_list[j])) : r \notin resource_ids}}

\* ConfigurationValidator.validate_configuration: (is_valid, errors); an
\* exception inside the checks is caught and reported as an error
validate_configuration(config) ==
    LET required == {"missing_required_field" : f \in
                       {"analysisEntityList", "resourceList"} \ config.keys}
        raises == \E e \in Range(GetEntityList(config)) : ValidatorRaises(e)
        errors == IF raises THEN {"validation_error"}
                  ELSE required
                       \cup _validate_entity_list(GetEntityList(config))
                       \cup _validate_resource_list(GetResourceList(config))
                       \cup _validate_cross_references(config)
    IN  [ok |-> errors = {}, errors |-> errors]

\* --------------------------------------------------- ConfigurationMerger
\* one element of resource["glossary"]: kept when it carries phrase and
\* definition and both are non-empty after str(...).strip()
ExtractItem(item) ==
    IF /\ Has(item, "phrase") /\ Has(item, "definition")
       /\ Truthy(strip(item.phrase)) /\ Truthy(strip(item.definition))
    THEN <<GlossaryTerm(strip(item.phrase), strip(item.definition),
                        IF Has(item, "metadata") THEN item.metadata ELSE EmptyDict)>>
    ELSE <<>>

\* one entry of the legacy resource["terms"] mapping (no strip)
ExtractLegacyEntry(item) ==
    IF Truthy(item.phrase) /\ Truthy(item.definition)
    THEN <<GlossaryTerm(item.phrase, item.definition, NoneValue)>>
    ELSE <<>>

\* ConfigurationMerger._extract_terms_from_resource
_extract_terms_from_resource(resource) ==
    IF Has(resource, "glossary")
    THEN Concat([i \in 1..Len(resource.glossary) |-> ExtractItem(resource.glossary[i])])
    ELSE IF Has(resource, "terms")
    THEN Concat([i \in 1..Len(resource.terms) |-> ExtractLegacyEntry(resource.terms[i])])
    ELSE <<>>

\* the inner loop of _extract_existing_terms: the first resource of the list
\* carrying the id, none when no resource carries it
TermsOfResourceId(resource_list, resource_id) ==
    LET hits == {j \in 1..Len(resource_list) : GetId(resource_list[j]) = resource_id}
    IN  IF hits = {} THEN <<>>
        ELSE _extract_terms_from_resource(
                 resource_list[CHOOSE j \in hits : \A k \in hits : j <= k])

\* ConfigurationMerger._extract_existing_terms
_extract_existing_terms(config, glossary_entity) ==
    LET resource_list == GetResourceList(config)
        resource_ids == GetResources(glossary_entity)
    IN  Concat([i \in 1..Len(resource_ids) |->
                  TermsOfResourceId(resource_list, resource_ids[i])])

\* an update branch that appends instead of replacing in place
ReplaceFirstAppends(merged_terms, new_term) == Append(merged_terms, new_term)

\* the update branch of _merge_terms: the first entry of merged_terms with
\* the phrase (case-insensitive) is replaced by new_term
ReplaceFirst(merged_terms, new_term) ==
    LET hits == {i \in 1..Len(merged_terms) :
                   lower(merged_terms[i].phrase) = lower(new_term.phrase)}
    IN  IF hits = {} THEN merged_terms
        ELSE [merged_terms EXCEPT ![CHOOSE i \in hits : \A k \in hits : i <= k] = new_term]

\* the loop of _merge_terms over new_terms; existing_lookup is built once,
\* from the existing terms, and is not extended by the loop
RECURSIVE MergeLoop(_, _, _)
MergeLoop(existing_lookup, merged_terms, new_terms) ==
    IF new_terms = <<>> THEN merged_terms
    ELSE LET new_term == Head(new_terms)
         IN  MergeLoop(existing_lookup,
                       IF lower(new_term.phrase) \in existing_lookup
                       THEN ReplaceFirst(merged_terms, new_term)
                       ELSE Append(merged_terms, new_term),
                       Tail(new_terms))

\* ConfigurationMerger._merge_terms
_merge_terms(existing_terms, new_terms) ==
    MergeLoop({lower(t.phrase) : t \in Range(existing_terms)}, existing_terms, new_terms)

\* the anchor predicate of _find_or_create_glossary_entity, evaluated left
\* to right: id, then name.lower(), then type
IsGlossaryEntity(entity) ==
    \/ GetId(entity) = glossary_entity_id
    \/ lower(GetName(entity)) = "glossary"
    \/ GetType(entity) = "glossary"

\* name.lower() raises AttributeError when the id did not match and name is None
PredicateRaises(entity) ==
    GetId(entity) # glossary_entity_id /\ GetName(entity) = NoneValue

\* a loop that keeps the last entity it stops at instead of the first
LastStop(entity_list) ==
    LET stops == {i \in 1..Len(entity_list) :
                    PredicateRaises(entity_list[i]) \/ IsGlossaryEntity(entity_list[i])}
    IN  IF stops = {} THEN 0 ELSE CHOOSE i \in stops : \A k \in stops : k <= i

\* index of the first entity the loop stops at: a match or a raise; 0 if none
FirstStop(entity_list) ==
    LET stops == {i \in 1..Len(entity_list) :
                    PredicateRaises(entity_list[i]) \/ IsGlossaryEntity(entity_list[i])}
    IN  IF stops = {} THEN 0 ELSE CHOOSE i \in stops : \A k \in stops : i <= k

\* the entity _find_or_create_glossary_entity appends when none matches
NewGlossaryEntity ==
    [keys |-> {"id", "name", "type", "enabled", "resources", "searchOrder",
               "description", "created", "updated"},
     id |-> glossary_entity_id, name |-> "Glossary", type |-> "glossary",
     enabled |-> TRUE, resources |-> <<>>]

\* ConfigurationMerger._find_or_create_glossary_entity: the document after
\* the call, the position of the returned entity in its entity list, and
\* whether the call raised
_find_or_create_glossary_entity(config) ==
    LET entity_list == GetEntityList(config)
        stop == FirstStop(entity_list)
    IN  IF stop # 0 /\ PredicateRaises(entity_list[stop])
        THEN [raised |-> TRUE, config |-> config, index |-> 0, found |-> FALSE]
        ELSE IF stop # 0
        THEN [raised |-> FALSE, config |-> config, index |-> stop, found |-> TRUE]
        ELSE [raised |-> FALSE,
              config |-> [config EXCEPT
                            !.keys = @ \cup {"analysisEntityList"},
                            !.analysisEntityList = Append(entity_list, NewGlossaryEntity)],
              index |-> Len(entity_list) + 1,
              found |-> FALSE]

\* the resource _update_configuration_with_terms writes: one resource with
\* the `glossary` list of every term's to_dict()
GlossaryResource(resource_id, terms) ==
    [keys |-> {"id", "alias", "type", "searchOrder", "created", "updated", "glossary"},
     id |-> resource_id, type |-> "glossary",
     phrase |-> "", definition |-> "",
     glossary |-> [i \in 1..Len(terms) |-> to_dict(terms[i])],
     terms |-> <<>>]

\* a filter that empties the resource list
RemoveOldResourcesAll(resource_list, existing_resource_ids) == <<>>

\* a filter that removes nothing
RemoveOldResourcesKeepsAll(resource_list, existing_resource_ids) == resource_list

\* the resources that stay: those whose id the entity does not reference
RemoveOldResources(resource_list, existing_resource_ids) ==
    SelectSeq(resource_list, LAMBDA r : GetId(r) \notin existing_resource_ids)

\* a test `if terms:` that is always taken
WritesResourceAlways(terms) == TRUE

\* the test `if terms:` deciding whether a resource is written
WritesResource(terms) == terms # <<>>

\* ConfigurationMerger._update_configuration_with_terms, on the entity at
\* position `index`; resource_id is what generate_resource_id() returned
_update_configuration_with_terms(config, index, terms, resource_id) ==
    LET glossary_entity == config.analysisEntityList[index]
        existing_resource_ids == Range(GetResources(glossary_entity))
        kept == RemoveOldResources(GetResourceList(config), existing_resource_ids)
        new_list == IF WritesResource(terms)
                    THEN Append(kept, GlossaryResource(resource_id, terms))
                    ELSE kept
        new_refs == IF WritesResource(terms) THEN <<resource_id>> ELSE <<>>
    IN  [config EXCEPT
           !.keys = @ \cup {"resourceList"},
           !.resourceList = new_list,
           !.analysisEntityList[index].keys = @ \cup {"resources", "updated"},
           !.analysisEntityList[index].resources = new_refs]

\* no copy: the working document is the caller's object
deepcopyAlias(h, ref) == [heap |-> h, ref |-> ref]

\* copy.deepcopy(config): a new object, equal to the one `ref` addresses
deepcopy(h, ref) ==
    [heap |-> [h EXCEPT !["updated_config"] = h[ref]], ref |-> "updated_config"]

\* merge_stats as initialised by merge_glossary_terms
InitialStats(terms, strategy) ==
    [strategy |-> strategy, terms_provided |-> Len(terms),
     terms_before |-> 0, terms_after |-> 0, terms_added |-> 0,
     terms_updated |-> 0, terms_removed |-> 0,
     glossary_entity_found |-> FALSE, validation_passed |-> TRUE]

NoStats == InitialStats(<<>>, "none")

\* a count of the distinct new phrases that no existing term has
CountAddedDistinct(existing_terms, terms) ==
    Cardinality({lower(terms[i].phrase) : i \in 1..Len(terms)}
                \ {lower(et.phrase) : et \in Range(existing_terms)})

\* terms_added under `merge`: the new terms whose lowered phrase is not the
\* lowered phrase of an existing term
CountAdded(existing_terms, terms) ==
    Cardinality({i \in 1..Len(terms) :
                   lower(terms[i].phrase) \notin
                       {lower(et.phrase) : et \in Range(existing_terms)}})

Raise(h, error) == [raised |-> TRUE, error |-> error, heap |-> h, ref |-> "none",
                    merge_stats |-> NoStats]

\* steps 3..8 of merge_glossary_terms, on the working copy `ref`; every
\* exception of the try block is re-raised as MergeError
MergeOnCopy(h, ref, terms, strategy, resource_id) ==
    LET fc == _find_or_create_glossary_entity(h[ref])
    IN  IF fc.raised THEN Raise(h, "MergeError")
        ELSE
        LET h3 == [h EXCEPT ![ref] = fc.config]
            glossary_entity == h3[ref].analysisEntityList[fc.index]
            existing_terms == _extract_existing_terms(h3[ref], glossary_entity)
            final_terms == IF strategy = "merge"
                           THEN _merge_terms(existing_terms, terms)
                           ELSE terms
            added == IF strategy = "merge"
                     THEN CountAdded(existing_terms, terms) ELSE Len(terms)
            h6 == [h3 EXCEPT ![ref] =
                     _update_configuration_with_terms(h3[ref], fc.index,
                                                      final_terms, resource_id)]
            stats == [InitialStats(terms, strategy) EXCEPT
                        !.glossary_entity_found = TRUE,
                        !.terms_before = Len(existing_terms),
                        !.terms_added = added,
                        !.terms_updated = IF strategy = "merge"
                                          THEN Len(terms) - added ELSE 0,
                        !.terms_removed = IF strategy = "merge"
                                          THEN 0 ELSE Len(existing_terms),
                        !.terms_after = Len(final_terms)]
        IN  IF ~validate_configuration(h6[ref]).ok
            THEN Raise(h6, "MergeError")
            ELSE [raised |-> FALSE, error |-> "none", heap |-> h6, ref |-> ref,
                  merge_stats |-> stats]

\* a merge that validates and copies the document before it looks at the
\* strategy
merge_glossary_termsStrategyLast(h, terms, strategy, resource_id) ==
    IF ~validate_configuration(h["config"]).ok THEN Raise(h, "MergeError")
    ELSE LET c == deepcopy(h, "config")
         IN  IF strategy \notin {"merge", "overwrite"} THEN Raise(c.heap, "MergeError")
             ELSE MergeOnCopy(c.heap, c.ref, terms, strategy, resource_id)

\* ConfigurationMerger.merge_glossary_terms(config, terms, strategy), the
\* caller's document being the object `config` of the heap
merge_glossary_terms(h, terms, strategy, resource_id) ==
    IF strategy \notin {"merge", "overwrite"} THEN Raise(h, "MergeError")
    ELSE IF ~validate_configuration(h["config"]).ok THEN Raise(h, "MergeError")
    ELSE LET c == deepcopy(h, "config")
         IN  MergeOnCopy(c.heap, c.ref, terms, strategy, resource_id)

\* ---------------------------------------------------------------- inputs
\* an element of a stored `glossary` list, as the remote store may hold it
RawItem(phrase, definition, metadata) ==
    [keys |-> {"phrase", "definition"} \cup
              (IF metadata # NoneValue THEN {"metadata"} ELSE {}),
     phrase |-> phrase, definition |-> definition,
     metadata |-> IF metadata # NoneValue THEN metadata ELSE EmptyDict]

\* stored items: a plain one, one with metadata, one padded with blanks and
\* in another letter case, one with an empty definition
StoredPool ==
    {RawItem("API", "d1", NoneValue), RawItem("REST", "d1", SomeMeta),
     RawItem(" api ", "d2", NoneValue), RawItem("REST", "", NoneValue)}

\* validated terms, as the Term Normalizer hands them to the merger: trimmed,
\* non-empty phrase and definition
TermPool ==
    {GlossaryTerm("API", "d1", EmptyDict), GlossaryTerm("API", "d2", EmptyDict),
     GlossaryTerm("api", "d2", SomeMeta), GlossaryTerm("REST", "d1", EmptyDict)}

TermLists == SeqsUpTo(TermPool, MaxNew)

Strategies == {"merge", "overwrite", "invalid"}

Encodings == {"flat", "bundle", "legacy"}

Layouts ==
    {"anchor", "by_name", "shared", "no_anchor", "none_name", "no_resource_list",
     "by_type", "by_type_upper", "two_matches", "no_entity_list", "unreferenced"}

ResourceId(i) == "r" \o ToString(i)

\* ids generate_resource_id() may return: uuid4 values, never an id in use
NewIds == {"n1", "n2"}

TopKeys == {"configurationId", "analysisEntityList", "resourceList"}

\* the resources holding the stored items in the given encoding
StoredResources(enc, stored) ==
    CASE enc = "flat" ->
           [i \in 1..Len(stored) |-> FlatResource(ResourceId(i), stored[i])]
      [] enc = "bundle" -> <<BundleResource(ResourceId(1), stored)>>
      [] enc = "legacy" -> <<LegacyResource(ResourceId(1), stored)>>

\* a document of the given layout whose glossary resources hold `stored`
MakeDocument(layout, enc, stored) ==
    LET res == StoredResources(enc, stored)
        refs == [i \in 1..Len(res) |-> res[i].id]
        anchor == Entity(glossary_entity_id, "Glossary", "glossary", refs)
        other == Entity("e1", "Other", "other", <<"rx">>)
    IN  CASE layout = "anchor" -> Document(TopKeys, <<anchor>>, res)
          [] layout = "by_name" ->
               Document(TopKeys, <<other, Entity("e2", "GLOSSARY", "other", refs)>>,
                        <<PlainResource("rx")>> \o res)
          [] layout = "shared" ->
               Document(TopKeys, <<anchor, Entity("e1", "Other", "other", refs)>>, res)
          [] layout = "no_anchor" ->
               Document(TopKeys, <<other>>, <<PlainResource("rx")>> \o res)
          [] layout = "none_name" ->
               Document(TopKeys, <<Entity("e3", NoneValue, "glossary", refs)>>, res)
          [] layout = "no_resource_list" ->
               Document(TopKeys \ {"resourceList"},
                        <<Entity(glossary_entity_id, "Glossary", "glossary", <<>>)>>, <<>>)
          [] layout = "by_type" ->
               Document(TopKeys, <<other, Entity("e2", "Terms", "glossary", refs)>>,
                        <<PlainResource("rx")>> \o res)
          [] layout = "by_type_upper" ->
               Document(TopKeys, <<other, Entity("e2", "Terms", "GLOSSARY", refs)>>,
                        <<PlainResource("rx")>> \o res)
          [] layout = "two_matches" ->
               Document(TopKeys,
                        <<Entity("e2", "GLOSSARY", "other", refs),
                          Entity(glossary_entity_id, "Glossary", "glossary", <<>>)>>,
                        res)
          [] layout = "no_entity_list" ->
               Document(TopKeys \ {"analysisEntityList"}, <<>>, <<>>)
          [] layout = "unreferenced" ->
               Document(TopKeys, <<Entity("e1", "Other", "other", <<>>), anchor>>,
                        <<PlainResource("rx")>> \o res \o <<PlainResource("ru")>>)

\* a legacy `terms` mapping has one entry per phrase
DistinctPhrases(stored) ==
    \A i, j \in 1..Len(stored) : i # j => stored[i].phrase # stored[j].phrase

\* the layouts taken with every encoding and every stored list
StoredLayouts == {"anchor", "by_name", "shared"}

\* the other layouts are taken with an empty glossary and with one stored term
InitDocuments ==
    {MakeDocument(l, e, st) : l \in StoredLayouts, e \in Encodings,
       st \in {x \in SeqsUpTo(StoredPool, MaxStored) : DistinctPhrases(x)}}
    \cup {MakeDocument(l, "bundle", st) : l \in Layouts \ StoredLayouts,
            st \in {<<>>, <<RawItem("API", "d1", NoneValue)>>}}

NullDocument == Document({}, <<>>, <<>>)

\* every id a document uses, as a resource id or as a reference
IdsInUse(config) ==
    {GetId(r) : r \in Range(config.resourceList)} \cup
    UNION {Range(GetResources(e)) : e \in Range(config.analysisEntityList)}

\* ------------------------------------------------------------------ state
VARIABLES
    heap,           \* the document objects: the caller's and the working copy
    config_before,  \* value of the caller's document when the call began
    terms,          \* argument `terms` of the call
    strategy,       \* argument `strategy` of the call
    outcome,        \* "none", "returned" or "MergeError"
    returned,       \* which object the call returned, "none" if it raised
    merge_stats,    \* the stats the call returned
    first_stats,    \* the stats of the first of two calls in a row
    pass,           \* number of merge calls made
    upc,            \* position of update_from_files
    config_id,      \* argument `config_id` of update_from_files
    dry_run,        \* argument `dry_run` of update_from_files
    remote,         \* the document the remote store holds
    api_calls,      \* calls made to get_configuration / update_configuration
    result,         \* the record update_from_files or preview_update returns
    validation,     \* what validate_configuration returned: (ok, errors)
    file_paths,     \* argument `file_paths` of process_files
    processed,      \* how process_files ended and the terms it returned
    error,          \* the exception update_from_files raised, if any
    validator,      \* a TermValidator object: its schema, counters and errors
    normalized,     \* the last call of clean_and_validate_term and its result
    steps,          \* the steps update_from_files has passed, in order
    request,        \* one _make_request call: its attempts, waits and end
    preview,        \* what get_merge_preview returned
    columns         \* a tabular header and the columns chosen in it

mergeVars == <<heap, config_before, terms, strategy, outcome, returned,
               merge_stats, first_stats, pass>>

updateVars == <<upc, config_id, dry_run, remote, api_calls, result>>

auxVars == <<validation, file_paths, processed, error>>

unitVars == <<validator, normalized, steps, request, preview, columns>>

vars == <<heap, config_before, terms, strategy, outcome, returned, merge_stats,
          first_stats, pass, upc, config_id, dry_run, remote, api_calls, result,
          validation, file_paths, processed, error, validator, normalized, steps,
          request, preview, columns>>

NoResult == [success |-> FALSE, dry_run |-> FALSE, changes_detected |-> FALSE,
             update_skipped |-> FALSE]

\* no merge call made yet
NoCall ==
    /\ terms = <<>>
    /\ strategy = "none"
    /\ outcome = "none"
    /\ returned = "none"
    /\ merge_stats = NoStats
    /\ first_stats = NoStats
    /\ pass = 0

\* update_from_files not running
NoUpdate ==
    /\ upc = "idle"
    /\ config_id = "none"
    /\ dry_run = FALSE
    /\ remote = NullDocument
    /\ api_calls = [get |-> 0, update |-> 0]
    /\ result = NoResult

\* validate_configuration not called
NoValidation == [called |-> FALSE, ok |-> FALSE, errors |-> {}]

\* process_files not called
NoProcessing == [outcome |-> "none", terms |-> <<>>]

NoError == [type |-> "none", message |-> "none"]

\* no TermValidator built
NoValidator == [schema |-> "none", cleaned_count |-> 0, rejected_count |-> 0,
                validation_errors |-> <<>>]

\* clean_and_validate_term not called
NoNormalized == [called |-> FALSE, calls |-> 0]

\* no header read
NoColumns == [header |-> <<>>, found |-> "none"]

\* get_merge_preview not called
NoPreview == [called |-> FALSE]

\* no _make_request call
NoRequest == [status |-> "none"]

NoUnit ==
    /\ validator = NoValidator
    /\ normalized = NoNormalized
    /\ steps = <<>>
    /\ request = NoRequest
    /\ preview = NoPreview
    /\ columns = NoColumns

NoAux ==
    /\ validation = NoValidation
    /\ file_paths = <<>>
    /\ processed = NoProcessing
    /\ error = NoError
    /\ NoUnit

Init ==
    /\ heap \in {[config |-> d, updated_config |-> NullDocument] : d \in InitDocuments}
    /\ config_before = heap["config"]
    /\ NoCall
    /\ NoUpdate
    /\ NoAux

\* the effect of one call merge_glossary_terms(config, t, s) on the state
Call(h, t, s, resource_id) ==
    LET r == merge_glossary_terms(h, t, s, resource_id)
    IN  /\ heap' = r.heap
        /\ config_before' = h["config"]
        /\ terms' = t
        /\ strategy' = s
        /\ outcome' = IF r.raised THEN r.error ELSE "returned"
        /\ returned' = r.ref
        /\ merge_stats' = r.merge_stats
        /\ pass' = pass + 1

\* a caller merges a term list into a document it holds
CallMerge ==
    /\ pass = 0
    /\ \E t \in TermLists, s \in Strategies :
         \E resource_id \in NewIds \ IdsInUse(heap["config"]) :
            /\ Call(heap, t, s, resource_id)
            /\ first_stats' = first_stats
            /\ UNCHANGED updateVars
            /\ UNCHANGED <<auxVars, unitVars>>

\* the caller merges the same term list again, into the returned document
CallMergeAgain ==
    /\ pass = 1
    /\ outcome = "returned"
    /\ \E resource_id \in NewIds \ IdsInUse(heap[returned]) :
         /\ Call([config |-> heap[returned], updated_config |-> NullDocument],
                 terms, strategy, resource_id)
         /\ first_stats' = merge_stats
         /\ UNCHANGED updateVars
         /\ UNCHANGED <<auxVars, unitVars>>

Next == CallMerge \/ CallMergeAgain

Spec == Init /\ [][Next]_vars

\* ---------------------------------------- GlossaryUpdater.update_from_files
\* FileProcessor._deduplicate_terms: the first term of each lowered phrase
RECURSIVE DedupLoop(_, _, _)
DedupLoop(seen_phrases, unique_terms, ts) ==
    IF ts = <<>> THEN unique_terms
    ELSE IF lower(Head(ts).phrase) \notin seen_phrases
    THEN DedupLoop(seen_phrases \cup {lower(Head(ts).phrase)},
                   Append(unique_terms, Head(ts)), Tail(ts))
    ELSE DedupLoop(seen_phrases, unique_terms, Tail(ts))

_deduplicate_terms(ts) == DedupLoop({}, <<>>, ts)

RESERVED_CONFIG_IDS ==
    {"08a785dd-9c90-3c8e-b9e6-dea1c560bfb9", "9d8d0029-0b2c-37f3-924a-87e97085ff34",
     "6d2af803-4078-374f-917e-81735a65f251", "e52e00a8-5136-3ac1-a2c9-7a2d938ef4fd"}

ConfigIds == {"08a785dd-9c90-3c8e-b9e6-dea1c560bfb9", "test-config-123"}

\* the documents the remote store may hold
RemoteDocuments ==
    {MakeDocument(l, e, st) : l \in {"anchor", "shared", "no_resource_list"},
       e \in {"flat", "bundle"}, st \in SeqsUpTo(StoredPool, MaxStored)}

\* has_changes of update_from_files, step 8
has_changes(stats) ==
    \/ stats.terms_added > 0
    \/ stats.terms_removed > 0
    \/ stats.terms_after - stats.terms_before # 0

InitUpdate ==
    /\ heap = [config |-> NullDocument, updated_config |-> NullDocument]
    /\ config_before = NullDocument
    /\ NoCall
    /\ upc = "start"
    /\ config_id = "none"
    /\ dry_run = FALSE
    /\ remote \in RemoteDocuments
    /\ api_calls = [get |-> 0, update |-> 0]
    /\ result = NoResult
    /\ NoAux

\* steps 0..2: the reserved-id check, file discovery, process_files (which
\* raises ProcessingError or returns the deduplicated terms) and the check
\* that terms were found
UpdateFromFiles ==
    /\ upc = "start"
    /\ \E id \in ConfigIds, all_terms \in TermLists, files_ok \in BOOLEAN,
          s \in Strategies, dry \in BOOLEAN :
          /\ config_id' = id
          /\ IF id \in RESERVED_CONFIG_IDS
             THEN /\ upc' = "failed"
                  /\ steps' = steps
                  /\ UNCHANGED <<terms, strategy, dry_run>>
             ELSE IF ~files_ok \/ all_terms = <<>>
             THEN /\ upc' = "failed"
                  /\ steps' = Append(steps, "config_id_checked")
                  /\ UNCHANGED <<terms, strategy, dry_run>>
             ELSE /\ upc' = "connect"
                  /\ steps' = steps \o <<"config_id_checked", "terms_built">>
                  /\ terms' = _deduplicate_terms(all_terms)
                  /\ strategy' = s
                  /\ dry_run' = dry
    /\ UNCHANGED <<heap, config_before, outcome, returned, merge_stats, first_stats,
                   pass, remote, api_calls, result>>
    /\ UNCHANGED <<auxVars, validator, normalized, request, preview, columns>>

\* step 3: await self.connect()
Connect ==
    /\ upc = "connect"
    /\ upc' \in {"fetch", "failed"}
    /\ UNCHANGED <<mergeVars, config_id, dry_run, remote, api_calls, result>>
    /\ UNCHANGED <<auxVars, validator, normalized, request, preview, columns>>
    /\ steps' = steps

\* step 4: await self.api_client.get_configuration(config_id)
GetConfiguration ==
    /\ upc = "fetch"
    /\ api_calls' = [api_calls EXCEPT !.get = @ + 1]
    /\ \/ /\ upc' = "merge"
          /\ heap' = [config |-> remote, updated_config |-> NullDocument]
          /\ steps' = Append(steps, "get_configuration")
       \/ /\ upc' = "failed"
          /\ heap' = heap
          /\ steps' = steps
    /\ UNCHANGED <<config_before, terms, strategy, outcome, returned, merge_stats,
                   first_stats, pass, config_id, dry_run, remote, result>>
    /\ UNCHANGED <<auxVars, validator, normalized, request, preview, columns>>

\* a step 9 that skips the remote write only in a dry run
SkipsWriteOnlyDryRun(dry, changes) == dry

\* step 9: `if dry_run:` and `elif not has_changes:` skip the remote write
SkipsWrite(dry, changes) == dry \/ ~changes

\* steps 5..9 up to the remote write: backup and structure check (which only
\* log), merge_glossary_terms, has_changes, and the dry-run and no-change
\* results
MergeAndDecide ==
    /\ upc = "merge"
    /\ \E resource_id \in NewIds \ IdsInUse(heap["config"]) :
          Call(heap, terms, strategy, resource_id)
    /\ first_stats' = first_stats
    /\ IF outcome' # "returned"
       THEN /\ upc' = "failed"
            /\ result' = result
            /\ steps' = steps
       ELSE IF SkipsWrite(dry_run, has_changes(merge_stats'))
       THEN /\ upc' = "done"
            /\ result' = [success |-> TRUE, dry_run |-> dry_run,
                          changes_detected |-> has_changes(merge_stats'),
                          update_skipped |-> ~has_changes(merge_stats')]
            /\ steps' = Append(steps, "merge_glossary_terms")
       ELSE /\ upc' = "write"
            /\ result' = result
            /\ steps' = Append(steps, "merge_glossary_terms")
    /\ UNCHANGED <<config_id, dry_run, remote, api_calls>>
    /\ UNCHANGED <<auxVars, validator, normalized, request, preview, columns>>

\* step 9: await self.api_client.update_configuration(config_id, updated_config)
UpdateConfiguration ==
    /\ upc = "write"
    /\ api_calls' = [api_calls EXCEPT !.update = @ + 1]
    /\ steps' = Append(steps, "update_configuration")
    /\ \/ /\ upc' = "done"
          /\ remote' = heap[returned]
          /\ result' = [success |-> TRUE, dry_run |-> FALSE,
                        changes_detected |-> TRUE, update_skipped |-> FALSE]
       \/ /\ upc' = "failed"
          /\ UNCHANGED <<remote, result>>
    /\ UNCHANGED <<mergeVars, config_id, dry_run>>
    /\ UNCHANGED <<auxVars, validator, normalized, request, preview, columns>>

NextUpdate ==
    \/ UpdateFromFiles
    \/ Connect
    \/ GetConfiguration
    \/ MergeAndDecide
    \/ UpdateConfiguration

SpecUpdate == InitUpdate /\ [][NextUpdate]_vars

\* ------------------------------------------- FileProcessor.process_files
MaxFiles == 2       \* files in one batch

\* TermValidator.get_default_schema: the rules the model's strings can
\* break (required, pattern, min_length, final punctuation) and whether the
\* rule set has the `forbidden_chars` list the cleaning reads
get_default_schema ==
    [phrase |-> [required |-> TRUE, pattern |-> TRUE, forbidden_chars |-> TRUE],
     definition |-> [required |-> TRUE, min_length |-> 5,
                     must_end_with_punctuation |-> TRUE, forbidden_chars |-> TRUE]]

\* a schema handed to TermValidator(schema) that asks for a phrase only
PermissiveSchema ==
    [phrase |-> [required |-> TRUE, pattern |-> FALSE, forbidden_chars |-> TRUE],
     definition |-> [required |-> FALSE, min_length |-> 0,
                     must_end_with_punctuation |-> FALSE, forbidden_chars |-> TRUE]]

\* schemas without a required phrase, and without the `forbidden_chars` lists
Schemas ==
    {get_default_schema, PermissiveSchema,
     [PermissiveSchema EXCEPT !.phrase.required = FALSE],
     [PermissiveSchema EXCEPT !.phrase.forbidden_chars = FALSE,
                              !.definition.forbidden_chars = FALSE]}

\* TermValidator.__init__
TermValidator(schema) ==
    [schema |-> schema, cleaned_count |-> 0, rejected_count |-> 0,
     validation_errors |-> <<>>]

\* TermValidator.clean_phrase on the phrases of the model: empty and 'None'
\* give "", then strip, tags and forbidden characters removed, title-case
\* and upper-cased abbreviations
clean_phrase(phrase) ==
    CASE phrase \in {"", "None", "  ", "<b></b>"} -> ""
      [] phrase \in {"API", "api", " API ", " api "} -> "API"
      [] phrase \in {"REST", "rest"} -> "REST"
      [] phrase = "a+b" -> "A+B"
      [] OTHER -> phrase

\* TermValidator.clean_definition on the definitions of the model: strip,
\* tags and forbidden strings removed, first letter capitalised, a final `.`
\* when the text is not empty and no punctuation ends it
clean_definition(definition) ==
    CASE definition \in {"", "None", "  ", "<b></b>"} -> ""
      [] definition = "first def" -> "First def."
      [] definition = "second def." -> "Second def."
      [] definition = " third def" -> "Third def."
      [] definition = "abc" -> "Abc."
      [] definition = "really?" -> "Really?"
      [] OTHER -> definition

\* the cleaning reads self.schema[...]["forbidden_chars"] once the early
\* return for an empty or 'None' text is passed: KeyError without the list
CleanRaises(rules, text) ==
    /\ Truthy(text)
    /\ text # "None"
    /\ ~rules.forbidden_chars

\* re.match(rules["pattern"], phrase) on the cleaned phrases of the model
MatchesPattern(phrase) == phrase # "A+B"

\* len() of the cleaned definitions of the model
StrLen(s) ==
    CASE s = "" -> 0
      [] s = "Abc." -> 4
      [] s = "Really?" -> 7
      [] s = "Second def." -> 11
      [] OTHER -> 10

\* str.endswith(('.', '!', '?')) on the definitions of the model
EndsWithPunctuation(s) ==
    s \in {"First def.", "Second def.", "Third def.", "Abc.", "Really?", "second def."}

\* TermValidator.validate_phrase: the errors it appends; it returns True
\* exactly when it appends none
validate_phrase(rules, phrase) ==
    IF ~Truthy(phrase) /\ rules.required THEN <<"Phrase is required but empty">>
    ELSE IF Truthy(phrase) /\ rules.pattern /\ ~MatchesPattern(phrase)
    THEN <<"Phrase contains invalid characters">>
    ELSE <<>>

\* TermValidator.validate_definition: the errors it appends; it returns True
\* exactly when it appends none
validate_definition(rules, definition) ==
    IF ~Truthy(definition) /\ rules.required THEN <<"Definition is required but empty">>
    ELSE IF Truthy(definition) /\ StrLen(definition) < rules.min_length
    THEN <<"Definition too short">>
    ELSE IF Truthy(definition) /\ rules.must_end_with_punctuation
                               /\ ~EndsWithPunctuation(definition)
    THEN <<"Definition must end with punctuation">>
    ELSE <<>>

\* GlossaryTerm.__init__: the ValueError it raises, "none" if it returns
GlossaryTermRaises(phrase, definition) ==
    IF ~Truthy(phrase) THEN "Phrase cannot be empty"
    ELSE IF ~Truthy(definition) THEN "Definition cannot be empty"
    ELSE "none"

\* TermValidator.clean_and_validate_term: the validator after the call and
\* the term returned, nothing when it returned None. The counter of cleaned
\* terms is incremented before GlossaryTerm is built; `except Exception`
\* records the error and counts a rejection
clean_and_validate_term(self, phrase, definition, metadata) ==
    LET rules == self.schema
        cleaned_phrase == clean_phrase(phrase)
        cleaned_definition == clean_definition(definition)
        phrase_errors == validate_phrase(rules.phrase, cleaned_phrase)
        definition_errors == IF phrase_errors = <<>>
                             THEN validate_definition(rules.definition, cleaned_definition)
                             ELSE <<>>
        raised == GlossaryTermRaises(cleaned_phrase, cleaned_definition)
    IN  IF CleanRaises(rules.phrase, phrase) \/ CleanRaises(rules.definition, definition)
        THEN [validator |-> [self EXCEPT
                               !.validation_errors = @ \o <<"Term validation error: 'forbidden_chars'">>,
                               !.rejected_count = @ + 1],
              term |-> <<>>]
        ELSE IF phrase_errors \o definition_errors # <<>>
        THEN [validator |-> [self EXCEPT
                               !.validation_errors = @ \o phrase_errors \o definition_errors,
                               !.rejected_count = @ + 1],
              term |-> <<>>]
        ELSE IF raised # "none"
        THEN [validator |-> [self EXCEPT
                               !.cleaned_count = @ + 1,
                               !.validation_errors = @ \o <<"Term validation error: " \o raised>>,
                               !.rejected_count = @ + 1],
              term |-> <<>>]
        ELSE [validator |-> [self EXCEPT !.cleaned_count = @ + 1],
              term |-> <<GlossaryTerm(cleaned_phrase, cleaned_definition, metadata)>>]

\* a raw term as the format extractors return it
RawTerm(phrase, definition) ==
    [phrase |-> phrase, definition |-> definition, metadata |-> EmptyDict]

\* a file on disk: whether it exists, its suffix, whether its content parses
\* and has the phrase and definition columns, and the raw terms it holds
File(exists, suffix, content, raw_terms) ==
    [exists |-> exists, suffix |-> suffix, content |-> content, raw_terms |-> raw_terms]

\* FileProcessor.process_file: raises ProcessingError, or returns the
\* validated terms of the file
process_file(file_path) ==
    LET extension == lower(file_path.suffix)
        fails == [raised |-> TRUE, terms |-> <<>>]
    IN  IF ~file_path.exists THEN fails
        ELSE IF extension \notin {".csv", ".json", ".yaml", ".yml"} THEN fails
        ELSE IF file_path.content = "unparsable" THEN fails
        ELSE IF file_path.content = "no_columns" /\ extension = ".csv" THEN fails
        ELSE [raised |-> FALSE,
              terms |-> IF file_path.content = "no_columns" THEN <<>>
                        ELSE Concat([i \in 1..Len(file_path.raw_terms) |->
                               clean_and_validate_term(TermValidator(get_default_schema),
                                                       file_path.raw_terms[i].phrase,
                                                       file_path.raw_terms[i].definition,
                                                       file_path.raw_terms[i].metadata).term])]

\* a loop that lets a failing file pass and goes on with the next one
FileFailsNever(file_path) == FALSE

\* the `except Exception` of the loop of process_files: the file raised
FileFails(file_path) == process_file(file_path).raised

\* FileProcessor.process_files: ProcessingError at the first file that
\* cannot be processed, else the deduplicated terms of all files
process_files(paths) ==
    IF \E i \in 1..Len(paths) : FileFails(paths[i])
    THEN [outcome |-> "ProcessingError", terms |-> <<>>]
    ELSE [outcome |-> "returned",
          terms |-> _deduplicate_terms(
                        Concat([i \in 1..Len(paths) |-> process_file(paths[i]).terms]))]

\* the raw terms of the files of the model
FileRows ==
    {<<>>,
     <<RawTerm("api", "first def")>>,
     <<RawTerm("API", "first def"), RawTerm("api", "second def.")>>,
     <<RawTerm("API", " third def")>>,
     <<RawTerm("rest", "second def."), RawTerm("API", " third def")>>,
     <<RawTerm("", "first def"), RawTerm("rest", "abc")>>}

\* files: missing, of an unsupported format, unparsable, without the phrase
\* and definition columns, and files that parse
FilePool ==
    {File(FALSE, ".csv", "rows", <<>>),
     File(TRUE, ".txt", "rows", <<>>),
     File(TRUE, ".json", "unparsable", <<>>),
     File(TRUE, ".CSV", "no_columns", <<>>),
     File(TRUE, ".json", "no_columns", <<>>)}
    \cup {File(TRUE, ".csv", "rows", rows) : rows \in FileRows}

InitProcess ==
    /\ heap = [config |-> NullDocument, updated_config |-> NullDocument]
    /\ config_before = NullDocument
    /\ NoCall
    /\ NoUpdate
    /\ validation = NoValidation
    /\ file_paths \in SeqsUpTo(FilePool, MaxFiles)
    /\ processed = NoProcessing
    /\ error = NoError
    /\ NoUnit

\* terms = self.file_processor.process_files(all_file_paths)
ProcessFiles ==
    /\ processed.outcome = "none"
    /\ processed' = process_files(file_paths)
    /\ UNCHANGED <<mergeVars, updateVars, validation, file_paths, error, unitVars>>

\* a check `if not terms:` that lets every term list pass
TermsFoundAlways(ts) == TRUE

\* the check `if not terms:` of update_from_files
TermsFound(ts) == ts # <<>>

\* update_from_files, step 2, after process_files ended: its exception is
\* re-raised as GlossaryUpdaterError, an empty term list raises
\* GlossaryUpdaterError, any other list goes on to step 3; step 1 has
\* raised already when no file was found
CheckTermsFound ==
    /\ processed.outcome # "none"
    /\ file_paths # <<>>
    /\ upc = "idle"
    /\ IF processed.outcome = "ProcessingError"
       THEN /\ upc' = "failed"
            /\ error' = [type |-> "GlossaryUpdaterError",
                         message |-> "Update failed: Failed to process"]
            /\ terms' = terms
       ELSE IF ~TermsFound(processed.terms)
       THEN /\ upc' = "failed"
            /\ error' = [type |-> "GlossaryUpdaterError",
                         message |-> "Update failed: No glossary terms found in files"]
            /\ terms' = terms
       ELSE /\ upc' = "connect"
            /\ error' = error
            /\ terms' = processed.terms
    /\ UNCHANGED <<heap, config_before, strategy, outcome, returned, merge_stats,
                   first_stats, pass, config_id, dry_run, remote, api_calls, result,
                   validation, file_paths, processed, unitVars>>

NextProcess == ProcessFiles \/ CheckTermsFound

SpecProcess == InitProcess /\ [][NextProcess]_vars

\* -------------------------------- TermValidator.clean_and_validate_term
MaxCalls == 2       \* calls made on one TermValidator

\* the raw phrases and definitions handed to the validator
RawPhrases == {"", "api", " API ", "rest", "a+b"}

RawDefinitions == {"", "None", "first def", "abc", "really?", "<b></b>"}

InitNormalize ==
    /\ heap = [config |-> NullDocument, updated_config |-> NullDocument]
    /\ config_before = NullDocument
    /\ NoCall
    /\ NoUpdate
    /\ validation = NoValidation
    /\ file_paths = <<>>
    /\ processed = NoProcessing
    /\ error = NoError
    /\ validator \in {TermValidator(schema) : schema \in Schemas}
    /\ normalized = NoNormalized
    /\ steps = <<>>
    /\ request = NoRequest
    /\ preview = NoPreview
    /\ columns = NoColumns

\* one call validator.clean_and_validate_term(phrase, definition, metadata);
\* `normalized` keeps the arguments, the validator before the call and the
\* term returned
CleanAndValidateTerm ==
    /\ normalized.calls < MaxCalls
    /\ \E phrase \in RawPhrases, definition \in RawDefinitions :
         LET r == clean_and_validate_term(validator, phrase, definition, EmptyDict)
         IN  /\ validator' = r.validator
             /\ normalized' = [called |-> TRUE, calls |-> normalized.calls + 1,
                               phrase |-> phrase,
                               definition |-> definition, before |-> validator,
                               term |-> r.term]
    /\ UNCHANGED <<mergeVars, updateVars, auxVars, steps, request, preview, columns>>

NextNormalize == CleanAndValidateTerm

SpecNormalize == InitNormalize /\ [][NextNormalize]_vars

\* ------------------------------------------ GlossaryUpdater.preview_update
\* the parameters of ConfigurationMerger._extract_existing_terms after self
_extract_existing_termsParameters == <<"config", "glossary_entity">>

\* a Python call with positional arguments: TypeError unless every
\* parameter (none has a default) gets an argument
CallRaisesTypeError(parameters, args) == Len(args) # Len(parameters)

\* {t.phrase.lower(): t for t in existing_terms}[phrase_lower]: the last
\* existing term with the key
LastWithPhrase(existing_terms, phrase_lower) ==
    LET hits == {i \in 1..Len(existing_terms) :
                   lower(existing_terms[i].phrase) = phrase_lower}
    IN  existing_terms[CHOOSE i \in hits : \A k \in hits : k <= i]

\* the preview record preview_update builds from the terms of the files and
\* the existing terms
BuildPreview(paths, ts, existing_terms, merge_strategy) ==
    LET existing_phrases == {lower(existing_terms[i].phrase) : i \in 1..Len(existing_terms)}
        Known(t) == lower(t.phrase) \in existing_phrases
        Changed(t) == Known(t) /\ LastWithPhrase(existing_terms, lower(t.phrase)).definition
                                    # t.definition
        Fresh(t) == ~Known(t)
        added == IF merge_strategy = "merge" THEN SelectSeq(ts, Fresh) ELSE ts
        updated == IF merge_strategy = "merge" THEN SelectSeq(ts, Changed) ELSE <<>>
        removed == IF merge_strategy = "merge" THEN <<>> ELSE existing_terms
    IN  [files_to_process |-> Len(paths),
         terms_extracted |-> Len(ts),
         terms_current |-> Len(existing_terms),
         strategy |-> merge_strategy,
         terms_that_would_be_added |-> added,
         terms_that_would_be_updated |-> updated,
         terms_that_would_be_removed |-> removed,
         terms_after |-> IF merge_strategy = "merge"
                         THEN Len(existing_terms) + Len(added) ELSE Len(ts),
         would_make_changes |-> Len(added) > 0 \/ Len(updated) > 0 \/ Len(removed) > 0]

\* the files and the remote documents of the previews of the model
PreviewFiles == {<<>>} \cup {<<f>> : f \in FilePool}

PreviewDocuments ==
    {MakeDocument(l, "bundle", st) : l \in {"anchor", "no_anchor"},
       st \in {<<>>, <<RawItem("API", "d1", NoneValue)>>,
               <<RawItem("REST", "d1", SomeMeta)>>}}

InitPreview ==
    /\ heap = [config |-> NullDocument, updated_config |-> NullDocument]
    /\ config_before = NullDocument
    /\ terms = <<>>
    /\ strategy \in Strategies
    /\ outcome = "none"
    /\ returned = "none"
    /\ merge_stats = NoStats
    /\ first_stats = NoStats
    /\ pass = 0
    /\ upc = "preview"
    /\ config_id = "test-config-123"
    /\ dry_run = FALSE
    /\ remote \in PreviewDocuments
    /\ api_calls = [get |-> 0, update |-> 0]
    /\ result = NoResult
    /\ validation = NoValidation
    /\ file_paths \in PreviewFiles
    /\ processed = NoProcessing
    /\ error = NoError
    /\ NoUnit

\* preview_update up to process_files: discover_glossary_files raises
\* ValueError when it finds no file, process_files raises ProcessingError
PreviewProcessFiles ==
    /\ upc = "preview"
    /\ IF file_paths = <<>>
       THEN /\ upc' = "failed"
            /\ error' = [type |-> "ValueError", message |-> "No valid glossary files found"]
            /\ UNCHANGED <<processed, terms>>
       ELSE /\ processed' = process_files(file_paths)
            /\ IF processed'.outcome = "ProcessingError"
               THEN /\ upc' = "failed"
                    /\ error' = [type |-> "ProcessingError", message |-> "Failed to process"]
                    /\ terms' = terms
               ELSE /\ upc' = "preview_fetch"
                    /\ error' = error
                    /\ terms' = processed'.terms
    /\ UNCHANGED <<heap, config_before, strategy, outcome, returned, merge_stats,
                   first_stats, pass, config_id, dry_run, remote, api_calls, result,
                   validation, file_paths, unitVars>>

\* connect if needed, then current_config = await get_configuration(config_id)
PreviewGetConfiguration ==
    /\ upc = "preview_fetch"
    /\ api_calls' = [api_calls EXCEPT !.get = @ + 1]
    /\ \/ /\ upc' = "preview_extract"
          /\ heap' = [config |-> remote, updated_config |-> NullDocument]
          /\ error' = error
       \/ /\ upc' = "failed"
          /\ heap' = heap
          /\ error' = [type |-> "APIError", message |-> "Failed to get configuration"]
    /\ UNCHANGED <<config_before, terms, strategy, outcome, returned, merge_stats,
                   first_stats, pass, config_id, dry_run, remote, result,
                   validation, file_paths, processed, unitVars>>

\* existing_terms = self.merger._extract_existing_terms(current_config), then
\* the preview record is built and returned
PreviewExtractAndBuild ==
    /\ upc = "preview_extract"
    /\ LET args == <<heap["config"]>>
       IN  IF CallRaisesTypeError(_extract_existing_termsParameters, args)
           THEN /\ upc' = "failed"
                /\ error' = [type |-> "TypeError",
                             message |-> "missing 1 required positional argument: 'glossary_entity'"]
                /\ result' = result
           ELSE /\ upc' = "done"
                /\ error' = error
                /\ result' = BuildPreview(file_paths, terms,
                                          _extract_existing_terms(args[1], args[2]),
                                          strategy)
    /\ UNCHANGED <<heap, config_before, terms, strategy, outcome, returned, merge_stats,
                   first_stats, pass, config_id, dry_run, remote, api_calls,
                   validation, file_paths, processed, unitVars>>

NextPreview ==
    \/ PreviewProcessFiles
    \/ PreviewGetConfiguration
    \/ PreviewExtractAndBuild

SpecPreview == InitPreview /\ [][NextPreview]_vars

\* ------------------------------------------------- APIClient._make_request
MaxRetries == 2     \* largest max_retries of a client

\* what one self.session.request(...) followed by raise_for_status() gives:
\* a status code, or a timeout or transport error raised by the session
Status(status_code) == [kind |-> "status", status_code |-> status_code]

RequestError(kind) == [kind |-> kind, status_code |-> 0]

Responses ==
    {Status(c) : c \in {200, 400, 404, 500, 501, 502, 503, 504}}
    \cup {RequestError("TimeoutException"), RequestError("ConnectError")}

IsStatus(response) == response.kind = "status"

\* a loop that re-attempts after every error status
RetriesStatusAny(status_code) == TRUE

\* `e.response.status_code in [500, 502, 503, 504]`
RetriesStatus(status_code) == status_code \in {500, 502, 503, 504}

\* wait_time = 2 ** attempt
wait_time(attempt) == 2^attempt

InitRequest ==
    /\ heap = [config |-> NullDocument, updated_config |-> NullDocument]
    /\ config_before = NullDocument
    /\ NoCall
    /\ NoUpdate
    /\ validation = NoValidation
    /\ file_paths = <<>>
    /\ processed = NoProcessing
    /\ error = NoError
    /\ validator = NoValidator
    /\ normalized = NoNormalized
    /\ steps = <<>>
    /\ preview = NoPreview
    /\ columns = NoColumns
    /\ request \in {[status |-> "called", max_retries |-> m, require_auth |-> r,
                     authenticated |-> a, attempt |-> 0, responses |-> <<>>,
                     waits |-> <<>>, raised |-> "none"] :
                      m \in 0..MaxRetries, r \in BOOLEAN, a \in BOOLEAN}

\* _make_request before the loop: the authentication check
BeginRequest ==
    /\ request.status = "called"
    /\ request' = IF request.require_auth /\ ~request.authenticated
                  THEN [request EXCEPT !.status = "raised", !.raised = "APIError"]
                  ELSE [request EXCEPT !.status = "attempting"]
    /\ UNCHANGED <<mergeVars, updateVars, auxVars, validator, normalized, steps, preview,
                   columns>>

\* one pass of `for attempt in range(self.max_retries + 1)`: the sleep from
\* the second pass on, the request, and the return, `continue` or raise
Attempt ==
    /\ request.status = "attempting"
    /\ request.attempt < request.max_retries + 1
    /\ \E response \in Responses :
         LET attempt == request.attempt
             slept == IF attempt > 0 THEN Append(request.waits, wait_time(attempt))
                      ELSE request.waits
             tried == [request EXCEPT !.waits = slept,
                                      !.responses = Append(@, response)]
         IN  request' =
               IF response = Status(200)
               THEN [tried EXCEPT !.status = "returned"]
               ELSE IF IsStatus(response)
               THEN IF RetriesStatus(response.status_code) /\ attempt < request.max_retries
                    THEN [tried EXCEPT !.attempt = attempt + 1]
                    ELSE [tried EXCEPT !.status = "raised", !.raised = "HTTPStatusError"]
               ELSE IF attempt < request.max_retries
                    THEN [tried EXCEPT !.attempt = attempt + 1]
                    ELSE [tried EXCEPT !.status = "raised", !.raised = "APIError"]
    /\ UNCHANGED <<mergeVars, updateVars, auxVars, validator, normalized, steps, preview,
                   columns>>

NextRequest == BeginRequest \/ Attempt

SpecRequest == InitRequest /\ [][NextRequest]_vars

\* ------------------------------------ ConfigurationMerger.get_merge_preview
\* a list of the new terms whose phrase no existing term has, or whose
\* definition differs from the existing one
would_be_addedOrChanged(existing_terms, ts) ==
    LET Differs(t) ==
          \A i \in 1..Len(existing_terms) :
             lower(existing_terms[i].phrase) = lower(t.phrase)
             => existing_terms[i].definition # t.definition
    IN  SelectSeq(ts, Differs)

\* terms_that_would_be_added under `merge`: the new terms whose lowered
\* phrase is not a key of existing_phrases
would_be_added(existing_terms, ts) ==
    LET existing_phrases == {lower(existing_terms[i].phrase) : i \in 1..Len(existing_terms)}
        Fresh(t) == lower(t.phrase) \notin existing_phrases
    IN  SelectSeq(ts, Fresh)

\* ConfigurationMerger.get_merge_preview: the preview record; the document
\* is only read
get_merge_preview(config, ts, s) ==
    LET v == validate_configuration(config)
        empty == [strategy |-> s, input_valid |-> v.ok, terms_provided |-> Len(ts),
                  terms_current |-> 0, terms_after |-> 0,
                  glossary_entity_exists |-> FALSE,
                  terms_that_would_be_added |-> <<>>,
                  terms_that_would_be_removed |-> <<>>,
                  error |-> "none"]
        entity_list == GetEntityList(config)
        stop == FirstStop(entity_list)
        existing_terms == IF stop = 0 THEN <<>>
                          ELSE _extract_existing_terms(config, entity_list[stop])
        added == IF s = "merge" THEN would_be_added(existing_terms, ts) ELSE ts
    IN  IF ~v.ok THEN [empty EXCEPT !.error = "Configuration validation failed"]
        ELSE IF stop # 0 /\ PredicateRaises(entity_list[stop])
        THEN [empty EXCEPT !.error = "Preview generation failed"]
        ELSE [empty EXCEPT
                !.glossary_entity_exists = stop # 0,
                !.terms_current = Len(existing_terms),
                !.terms_that_would_be_added = added,
                !.terms_that_would_be_removed = IF s = "merge" THEN <<>> ELSE existing_terms,
                !.terms_after = IF s = "merge" THEN Len(existing_terms) + Len(added)
                                ELSE Len(ts)]

\* the documents previewed: every layout and encoding with at most one
\* stored term, and bundles of the anchor layout with more
MergePreviewDocuments ==
    {MakeDocument(l, e, st) : l \in Layouts, e \in Encodings,
       st \in {<<>>, <<RawItem("API", "d1", NoneValue)>>, <<RawItem(" api ", "d2", NoneValue)>>}}
    \cup {MakeDocument("anchor", "bundle", st) : st \in SeqsUpTo(StoredPool, MaxStored)}

InitMergePreview ==
    /\ heap \in {[config |-> d, updated_config |-> NullDocument] :
                   d \in MergePreviewDocuments}
    /\ config_before = heap["config"]
    /\ terms \in TermLists
    /\ strategy \in Strategies
    /\ outcome = "none"
    /\ returned = "none"
    /\ merge_stats = NoStats
    /\ first_stats = NoStats
    /\ pass = 0
    /\ NoUpdate
    /\ NoAux

\* a caller asks for the preview of merging `terms` into its document
GetMergePreview ==
    /\ ~preview.called
    /\ preview' = [called |-> TRUE,
                   value |-> get_merge_preview(heap["config"], terms, strategy)]
    /\ UNCHANGED <<mergeVars, updateVars, auxVars, validator, normalized, steps, request,
                   columns>>

\* the caller then merges the same terms into the same document
MergePreviewed ==
    /\ preview.called
    /\ pass = 0
    /\ \E resource_id \in NewIds \ IdsInUse(heap["config"]) :
         Call(heap, terms, strategy, resource_id)
    /\ UNCHANGED <<first_stats, updateVars, auxVars, unitVars>>

NextMergePreview == GetMergePreview \/ MergePreviewed

SpecMergePreview == InitMergePreview /\ [][NextMergePreview]_vars

\* ------------------------------------- FileProcessor._extract_csv_terms
MaxColumns == 3     \* columns of a header

phrase_keywords == <<"phrase", "term", "word", "name", "title", "key">>

definition_keywords ==
    <<"definition", "description", "meaning", "explanation", "desc", "value">>

\* the column names of the model, as the header has them after strip and lower
ColumnNames ==
    {"phrase", "term", "name", "definition", "description", "value", "notes",
     "term description", "key value", "keyword"}

\* `keyword in col.lower()`: the keywords that are substrings of the name
Contains(col, keyword) ==
    keyword \in
      CASE lower(col) = "term description" -> {"term", "description", "desc"}
        [] lower(col) = "description" -> {"description", "desc"}
        [] lower(col) = "key value" -> {"key", "value"}
        [] lower(col) = "keyword" -> {"key", "word"}
        [] lower(col) = "notes" -> {}
        [] OTHER -> {lower(col)}

\* for keyword in keywords: for col in columns: the first column that
\* contains the first keyword any column contains, None when there is none
RECURSIVE FindColumn(_, _)
FindColumn(keywords, cols) ==
    IF keywords = <<>> THEN NoneValue
    ELSE LET matching == SelectSeq(cols, LAMBDA col : Contains(col, Head(keywords)))
         IN  IF matching # <<>> THEN Head(matching)
             ELSE FindColumn(Tail(keywords), cols)

\* a search that goes through the columns first: the first column that
\* contains any phrase keyword
_find_phrase_columnByColumn(cols) ==
    LET matching == SelectSeq(cols, LAMBDA col :
                        \E k \in 1..Len(phrase_keywords) : Contains(col, phrase_keywords[k]))
    IN  IF matching # <<>> THEN Head(matching) ELSE NoneValue

_find_phrase_column(cols) == FindColumn(phrase_keywords, cols)

_find_definition_column(cols) == FindColumn(definition_keywords, cols)

InitColumns ==
    /\ heap = [config |-> NullDocument, updated_config |-> NullDocument]
    /\ config_before = NullDocument
    /\ NoCall
    /\ NoUpdate
    /\ validation = NoValidation
    /\ file_paths = <<>>
    /\ processed = NoProcessing
    /\ error = NoError
    /\ validator = NoValidator
    /\ normalized = NoNormalized
    /\ steps = <<>>
    /\ request = NoRequest
    /\ preview = NoPreview
    /\ columns \in {[header |-> h, found |-> "none"] :
                      h \in {x \in SeqsUpTo(ColumnNames, MaxColumns) :
                               \A i, j \in 1..Len(x) : i # j => x[i] # x[j]}}

\* _extract_csv_terms on the header: the two columns are looked up and
\* ProcessingError is raised when one of them is missing
FindColumns ==
    /\ columns.found = "none"
    /\ LET phrase_col == _find_phrase_column(columns.header)
           definition_col == _find_definition_column(columns.header)
       IN  columns' = [header |-> columns.header,
                       found |-> IF ~Truthy(phrase_col) \/ ~Truthy(definition_col)
                                 THEN "ProcessingError" ELSE "both",
                       phrase_col |-> phrase_col,
                       definition_col |-> definition_col]
    /\ UNCHANGED <<mergeVars, updateVars, auxVars, validator, normalized, steps,
                   request, preview>>

NextColumns == FindColumns

SpecColumns == InitColumns /\ [][NextColumns]_vars

\* ------------------------------- ConfigurationValidator.validate_configuration
\* resource lists of the documents handed to the validator: a glossary
\* bundle, plain resources, ids repeated or empty
ValidatorResources ==
    LET pool == {BundleResource("r1", <<RawItem("API", "d1", NoneValue)>>),
                 PlainResource("r2"), PlainResource("")}
    IN  {<<>>} \cup {<<r>> : r \in pool} \cup {<<r, q>> : r \in pool, q \in pool}

\* entity lists: a glossary entity, alone or followed by another entity whose
\* id may repeat the first one's, whose reference may dangle or whose name
\* is null
ValidatorEntities ==
    LET first == {Entity(id, "Glossary", "glossary", refs) :
                    id \in {glossary_entity_id, ""},
                    refs \in {<<>>, <<"r1">>, <<"r1", "r2">>}}
        second == {Entity(id, "Other", "other", <<>>) :
                     id \in {glossary_entity_id, "e1", ""}}
                  \cup {Entity("e1", "Other", "other", <<"rx">>),
                        Entity("e1", NoneValue, "other", <<"rx">>)}
    IN  {<<f>> : f \in first} \cup {<<f, g>> : f \in first, g \in second}

\* the documents handed to the validator, lists at top level or under `data`
ValidatorDocuments ==
    {Document(TopKeys, es, rs) : es \in ValidatorEntities, rs \in ValidatorResources}
    \cup {NestedDocument(es, rs) : es \in ValidatorEntities, rs \in ValidatorResources}

InitValidate ==
    /\ heap \in {[config |-> d, updated_config |-> NullDocument] :
                   d \in ValidatorDocuments}
    /\ config_before = heap["config"]
    /\ NoCall
    /\ NoUpdate
    /\ NoAux

\* a caller validates the document it holds
ValidateConfiguration ==
    /\ ~validation.called
    /\ LET v == validate_configuration(heap["config"])
       IN  validation' = [called |-> TRUE, ok |-> v.ok, errors |-> v.errors]
    /\ UNCHANGED <<mergeVars, updateVars, file_paths, processed, error, unitVars>>

\* the caller then merges a term list into the document
MergeValidated ==
    /\ validation.called
    /\ CallMerge

NextValidate == ValidateConfiguration \/ MergeValidated

SpecValidate == InitValidate /\ [][NextValidate]_vars

\* ------------------------------------------------ notions the claims use
\* the anchor of a document: its first entity matching the anchor predicate
AnchorIndex(config) ==
    LET hits == {i \in 1..Len(GetEntityList(config)) :
                   IsGlossaryEntity(config.analysisEntityList[i])}
    IN  IF hits = {} THEN 0 ELSE CHOOSE i \in hits : \A k \in hits : i <= k

AnchorRefs(config) ==
    IF AnchorIndex(config) = 0 THEN <<>>
    ELSE GetResources(config.analysisEntityList[AnchorIndex(config)])

IsFlat(resource) == {"phrase", "definition"} \subseteq resource.keys

IsBundle(resource) == Has(resource, "glossary")

ResourceWithId(config, id) ==
    LET hits == {j \in 1..Len(GetResourceList(config)) : GetId(config.resourceList[j]) = id}
    IN  config.resourceList[CHOOSE j \in hits : \A k \in hits : j <= k]

ResourceIds(config) == {GetId(r) : r \in Range(GetResourceList(config))}

\* the terms a resource stores, in either encoding: a flat resource stores
\* its own phrase and definition, any other what the merger reads from it
StoredInResource(resource) ==
    IF IsFlat(resource) THEN ExtractItem(resource)
    ELSE _extract_terms_from_resource(resource)

\* the glossary terms stored in the anchor's resources
StoredTerms(config) ==
    LET refs == AnchorRefs(config)
    IN  Concat([i \in 1..Len(refs) |->
                  IF refs[i] \in ResourceIds(config)
                  THEN StoredInResource(ResourceWithId(config, refs[i]))
                  ELSE <<>>])

LoweredPhrases(ts) == {lower(ts[i].phrase) : i \in 1..Len(ts)}

Returned == outcome = "returned"

ReturnedDocument == heap[returned]

\* what _extract_existing_terms reads back from the returned document
ExtractedAfter ==
    _extract_existing_terms(ReturnedDocument,
        ReturnedDocument.analysisEntityList[AnchorIndex(ReturnedDocument)])

\* ----------------------------------------------------------------- claims

\* C1: under `merge`, every term stored in the anchor's resources before the
\* call (flat or bundle encoding) whose case-insensitive phrase is not among
\* the new terms is still stored with the same definition in the returned
\* document, and terms_before is the number of terms that were stored.
C1_MergeKeepsStoredTerms ==
    (Returned /\ strategy = "merge") =>
        LET before == StoredTerms(config_before)
            after == StoredTerms(ReturnedDocument)
        IN  /\ \A i \in 1..Len(before) :
                 lower(before[i].phrase) \notin LoweredPhrases(terms) =>
                     \E j \in 1..Len(after) :
                        /\ strip(after[j].phrase) = strip(before[i].phrase)
                        /\ after[j].definition = before[i].definition
            /\ merge_stats.terms_before = Len(before)

\* C2: after a successful merge every id in the anchor's `resources` list
\* resolves to a resource of the returned document, and no resource id the
\* anchor referenced before the call remains in the resource list or in the
\* anchor's `resources` list.
C2_CrossReferenceIntegrity ==
    Returned =>
        /\ \A id \in Range(AnchorRefs(ReturnedDocument)) :
              id \in ResourceIds(ReturnedDocument)
        /\ \A id \in Range(AnchorRefs(config_before)) :
              /\ id \notin ResourceIds(ReturnedDocument)
              /\ id \notin Range(AnchorRefs(ReturnedDocument))

C2_Witness ==
    /\ Returned
    /\ Len(AnchorRefs(config_before)) = 2
    /\ AnchorRefs(ReturnedDocument) # <<>>

\* the stored term set of a document: case-insensitive phrase and definition
StoredTermSet(config) ==
    {<<lower(t.phrase), t.definition>> : t \in Range(StoredTerms(config))}

\* C3: with dry_run false, update_from_files skips the remote write
\* (update_skipped) only if the term set of the merged document equals the
\* term set stored before the merge; a `merge` run that changes the
\* definition of a stored phrase and adds no phrase still writes.
C3_SkipOnlyWhenSameTerms ==
    (upc = "done" /\ ~dry_run /\ result.update_skipped) =>
        StoredTermSet(ReturnedDocument) = StoredTermSet(config_before)

C6_CallerDocumentUnchanged ==
    outcome # "none" =>
        /\ heap["config"] = config_before
        /\ outcome = "MergeError" => returned = "none"

C6_Witness ==
    /\ outcome = "MergeError"
    /\ heap["updated_config"] \notin {NullDocument, config_before}

\* C7: under `merge`, terms_added is the number of new terms whose
\* case-insensitive phrase was absent from the stored set before the call,
\* terms_updated the number whose phrase was present, their sum is
\* terms_provided and terms_removed is 0.
C7_MergeCounts ==
    (Returned /\ strategy = "merge") =>
        LET stored == LoweredPhrases(StoredTerms(config_before))
            absent == {i \in 1..Len(terms) : lower(terms[i].phrase) \notin stored}
        IN  /\ merge_stats.terms_added = Cardinality(absent)
            /\ merge_stats.terms_updated = Len(terms) - Cardinality(absent)
            /\ merge_stats.terms_added + merge_stats.terms_updated
                  = merge_stats.terms_provided
            /\ merge_stats.terms_removed = 0

\* C8: under `overwrite` the stored set after the call is exactly the new
\* term list, terms_after = terms_added = len(terms), and terms_removed =
\* terms_before = the number of terms stored before.
C8_OverwriteCounts ==
    (Returned /\ strategy = "overwrite") =>
        /\ StoredTerms(ReturnedDocument) = terms
        /\ merge_stats.terms_after = Len(terms)
        /\ merge_stats.terms_added = Len(terms)
        /\ merge_stats.terms_removed = merge_stats.terms_before
        /\ merge_stats.terms_before = Len(StoredTerms(config_before))

\* the result set of the call is empty: nothing is passed in and nothing
\* stored is to be kept
ResultSetEmpty ==
    terms = <<>> /\ (strategy = "overwrite" \/ StoredTerms(config_before) = <<>>)

AnchorResources(config) ==
    [i \in 1..Len(AnchorRefs(config)) |-> ResourceWithId(config, AnchorRefs(config)[i])]

\* C10: the result set is written back in the encoding of the input
\* document: flat in, one flat resource and one anchor reference per result
\* term out; bundle in, exactly one bundle resource with terms_after entries
\* and exactly its id in the anchor's `resources` list out.
C10_SameEncoding ==
    Returned =>
        LET in == AnchorResources(config_before)
            out == AnchorResources(ReturnedDocument)
        IN  /\ (in # <<>> /\ \A i \in 1..Len(in) : IsFlat(in[i])) =>
                  /\ Len(out) = merge_stats.terms_after
                  /\ \A i \in 1..Len(out) : IsFlat(out[i])
            /\ (in # <<>> /\ IsBundle(in[1]) /\ merge_stats.terms_after > 0) =>
                  /\ Len(out) = 1
                  /\ IsBundle(out[1])
                  /\ Len(out[1].glossary) = merge_stats.terms_after

\* an entity list and a resource list that are well formed: identity fields
\* present, ids unique within each list, every reference resolving
WellFormedLists(entities, resources) ==
    /\ \A i \in 1..Len(entities) : {"id", "name"} \subseteq entities[i].keys
    /\ \A i, j \in 1..Len(entities) : i # j => entities[i].id # entities[j].id
    /\ \A i \in 1..Len(resources) : Has(resources[i], "id")
    /\ \A i, j \in 1..Len(resources) : i # j => resources[i].id # resources[j].id
    /\ \A i \in 1..Len(entities) : \A r \in Range(GetResources(entities[i])) :
          \E k \in 1..Len(resources) : resources[k].id = r

\* the document the caller holds keeps its two lists under `data`
IsNested(config) == Has(config, "data") /\ ~Has(config, "analysisEntityList")

\* C11: validate_configuration returns (true, no errors) for a well-formed
\* document whose entity list and resource list are nested under `data`, and
\* merge_glossary_terms, called with a valid strategy, accepts that document.
C11_NestedDocumentAccepted ==
    (/\ validation.called
     /\ IsNested(config_before)
     /\ WellFormedLists(config_before.data.analysisEntityList,
                        config_before.data.resourceList)) =>
        /\ validation.ok
        /\ validation.errors = {}
        /\ (outcome # "none" /\ strategy \in {"merge", "overwrite"}) => Returned

\* the two lists of a document, wherever it keeps them
ListsOf(config) == IF IsNested(config) THEN config.data ELSE config

\* some entity of the list references an id that no resource of the list has
Dangling(entities, resources) ==
    \E i \in 1..Len(entities) : \E r \in Range(GetResources(entities[i])) :
        \A k \in 1..Len(resources) : GetId(resources[k]) # r

DuplicateIds(list) ==
    \E i, j \in 1..Len(list) :
        i # j /\ Has(list[i], "id") /\ Has(list[j], "id") /\ list[i].id = list[j].id

\* C13: validate_configuration returns ok = false with a duplicate-id error
\* whenever two entries of the entity list, or two entries of the resource
\* list, carry the same id, whatever the id (an empty string included).
C13_DuplicateIdsReported ==
    (/\ validation.called
     /\ ~IsNested(config_before)
     /\ "validation_error" \notin validation.errors) =>
        /\ DuplicateIds(config_before.analysisEntityList) =>
              (~validation.ok /\ "duplicate_entity_id" \in validation.errors)
        /\ DuplicateIds(config_before.resourceList) =>
              (~validation.ok /\ "duplicate_resource_id" \in validation.errors)

\* the validated terms of all files of the batch, in processing order
AccumulatedTerms ==
    Concat([i \in 1..Len(file_paths) |-> process_file(file_paths[i]).terms])

\* positions of the accumulated list holding the phrase, case-insensitively
Occurrences(all, phrase) == {k \in 1..Len(all) : lower(all[k].phrase) = lower(phrase)}

FirstOccurrence(all, phrase) ==
    CHOOSE k \in Occurrences(all, phrase) : \A m \in Occurrences(all, phrase) : k <= m

LastOccurrence(all, phrase) ==
    CHOOSE k \in Occurrences(all, phrase) : \A m \in Occurrences(all, phrase) : m <= k

\* C14: process_files returns exactly one term per case-insensitive phrase,
\* carrying the definition of the LAST occurrence of the phrase in
\* processing order, in the order of the phrases' first occurrences.
C14_LastOccurrenceWins ==
    processed.outcome = "returned" =>
        LET all == AccumulatedTerms
            out == processed.terms
        IN  /\ \A i, j \in 1..Len(out) :
                  i # j => lower(out[i].phrase) # lower(out[j].phrase)
            /\ \A k \in 1..Len(all) : Occurrences(out, all[k].phrase) # {}
            /\ \A i \in 1..Len(out) :
                  /\ Occurrences(all, out[i].phrase) # {}
                  /\ out[i].definition =
                        all[LastOccurrence(all, out[i].phrase)].definition
            /\ \A i, j \in 1..Len(out) :
                  i < j => FirstOccurrence(all, out[i].phrase)
                              < FirstOccurrence(all, out[j].phrase)

\* the identity of a term: its phrase, trimmed and lower-cased
TermKey(term) == lower(strip(term.phrase))

\* at most one term per identity
UniquePhrases(ts) ==
    \A i, j \in 1..Len(ts) : i # j => TermKey(ts[i]) # TermKey(ts[j])

\* C15: if the stored set has at most one term per case-insensitive phrase,
\* the result set of a `merge` call has at most one term per
\* case-insensitive phrase, whatever the list of new terms, a list naming
\* twice a phrase that is not stored included.
C15_MergeKeepsPhrasesUnique ==
    (Returned /\ strategy = "merge" /\ UniquePhrases(StoredTerms(config_before))) =>
        UniquePhrases(StoredTerms(ReturnedDocument))

\* the entities of a document that merge has written to: it stamps `updated`
\* on the anchor it uses
UsedAnchors(config) ==
    {i \in 1..Len(GetEntityList(config)) : Has(config.analysisEntityList[i], "updated")}

\* first position of the list satisfying the test, 0 if none does
FirstIndex(list, Test(_)) ==
    LET hits == {i \in 1..Len(list) : Test(list[i])}
    IN  IF hits = {} THEN 0 ELSE CHOOSE i \in hits : \A k \in hits : i <= k

\* id, name or type marker, the markers compared case-insensitively
MatchesAnyCase(entity) ==
    \/ GetId(entity) = glossary_entity_id
    \/ lower(GetName(entity)) = "glossary"
    \/ lower(GetType(entity)) = "glossary"

\* id, name compared case-insensitively, type compared as it is written
MatchesExactType(entity) ==
    \/ GetId(entity) = glossary_entity_id
    \/ lower(GetName(entity)) = "glossary"
    \/ GetType(entity) = "glossary"

\* C16 as stated: the anchor merge uses is the first entity whose id is the
\* well-known id or whose name or type marker is "glossary" in any letter
\* case; such an entity is reused and no entity is created.
C16_AnchorByMarkerAnyCase ==
    Returned =>
        LET first == FirstIndex(GetEntityList(config_before), MatchesAnyCase)
        IN  first # 0 =>
              /\ UsedAnchors(ReturnedDocument) = {first}
              /\ Len(ReturnedDocument.analysisEntityList)
                    = Len(config_before.analysisEntityList)

\* C16 amended: the anchor a returning merge uses is the first entity whose
\* id is the well-known id, whose name is "glossary" in any letter case or
\* whose type is exactly "glossary"; such an entity is reused, whatever its
\* id, and no entity is created.
C16_AnchorByMarker ==
    Returned =>
        LET first == FirstIndex(GetEntityList(config_before), MatchesExactType)
        IN  first # 0 =>
              /\ UsedAnchors(ReturnedDocument) = {first}
              /\ Len(ReturnedDocument.analysisEntityList)
                    = Len(config_before.analysisEntityList)

C16_Witness ==
    /\ Returned /\ pass = 1
    /\ Len(config_before.analysisEntityList) = 2
    /\ config_before.analysisEntityList[1].id # glossary_entity_id
    /\ config_before.analysisEntityList[1].name = "GLOSSARY"
    /\ MatchesExactType(config_before.analysisEntityList[2])
    /\ UsedAnchors(ReturnedDocument) = {1}

\* the document lacks the entity list or the resource list
MissingContainer(config) ==
    ~Has(config, "analysisEntityList") \/ ~Has(config, "resourceList")

\* the entity list of the returned document is that of the input followed
\* by one new anchor entity
AppendedAnchor ==
    LET before == GetEntityList(config_before)
        after == GetEntityList(ReturnedDocument)
    IN  /\ Len(after) = Len(before) + 1
        /\ \A i \in 1..Len(before) : after[i] = before[i]
        /\ after[Len(after)].id = glossary_entity_id
        /\ after[Len(after)].name = "Glossary"
        /\ after[Len(after)].enabled
        /\ Len(after[Len(after)].resources) = IF merge_stats.terms_after > 0 THEN 1 ELSE 0

\* C17: when no entity matches the anchor predicate, merge appends exactly
\* one new anchor entity at the end of the entity list and leaves the other
\* entities in place; when the document has no entity list or no resource
\* list, merge creates the missing container and returns instead of raising.
C17_AnchorAndContainersCreated ==
    (outcome # "none" /\ strategy \in {"merge", "overwrite"}) =>
        /\ (Returned /\ FirstIndex(GetEntityList(config_before), MatchesExactType) = 0)
              => AppendedAnchor
        /\ MissingContainer(config_before) =>
              /\ Returned
              /\ ~MissingContainer(ReturnedDocument)
              /\ AppendedAnchor \/ Has(config_before, "analysisEntityList")

\* C18: merge_glossary_terms called with a strategy other than "merge" or
\* "overwrite" raises MergeError and returns nothing, without copying or
\* modifying the document, for every document (valid or not) and term list.
C18_InvalidStrategyRaises ==
    (outcome # "none" /\ strategy \notin {"merge", "overwrite"}) =>
        /\ outcome = "MergeError"
        /\ returned = "none"
        /\ merge_stats = NoStats
        /\ heap["config"] = config_before
        /\ heap["updated_config"] = NullDocument

C18_Witness ==
    /\ outcome = "MergeError"
    /\ strategy = "invalid"
    /\ Len(terms) = 2
    /\ ~validate_configuration(config_before).ok
    /\ Len(GetEntityList(config_before)) = 1

\* a file that cannot be processed: missing, of an unsupported format, with
\* unparsable content, or tabular without the phrase and definition columns
Unprocessable(file) ==
    \/ ~file.exists
    \/ lower(file.suffix) \notin {".csv", ".json", ".yaml", ".yml"}
    \/ file.content = "unparsable"
    \/ file.content = "no_columns" /\ lower(file.suffix) = ".csv"

\* C19: process_files either raises ProcessingError, returning no term, when
\* some file of the batch cannot be processed, or returns the deduplicated
\* terms of all files: one per case-insensitive phrase found in any file, in
\* the order the phrases first occur.
C19_AllFilesOrProcessingError ==
    processed.outcome # "none" =>
        IF \E i \in 1..Len(file_paths) : Unprocessable(file_paths[i])
        THEN processed = [outcome |-> "ProcessingError", terms |-> <<>>]
        ELSE LET all == AccumulatedTerms
                 out == processed.terms
             IN  /\ processed.outcome = "returned"
                 /\ LoweredPhrases(out) = LoweredPhrases(all)
                 /\ Range(out) \subseteq Range(all)
                 /\ UniquePhrases(out)
                 /\ \A i, j \in 1..Len(out) :
                       i < j => FirstOccurrence(all, out[i].phrase)
                                   < FirstOccurrence(all, out[j].phrase)

C19_Witness ==
    /\ processed.outcome = "ProcessingError"
    /\ Len(file_paths) = 2
    /\ ~Unprocessable(file_paths[1])
    /\ Len(process_file(file_paths[1]).terms) = 2
    /\ Unprocessable(file_paths[2])

\* C20 as stated: process_files never returns an empty term list: when the
\* final deduplicated set is empty it ends in an error that is not a
\* ProcessingError.
C20_EmptySetIsAnError ==
    processed.outcome = "returned" => processed.terms # <<>>

\* C20 amended: process_files returns the deduplicated set also when it is
\* empty; update_from_files, having received an empty set, raises
\* GlossaryUpdaterError ("No glossary terms found in files"), which is not a
\* ProcessingError, and goes on to connect only with a non-empty set.
C20_EmptySetStopsUpdate ==
    /\ (processed.outcome = "returned" /\ AccumulatedTerms = <<>>)
          => processed.terms = <<>>
    /\ (processed.outcome = "returned" /\ processed.terms = <<>> /\ upc # "idle") =>
          /\ upc = "failed"
          /\ error.type = "GlossaryUpdaterError"
          /\ error.message = "Update failed: No glossary terms found in files"
          /\ terms = <<>>
    /\ upc = "connect" => (terms # <<>> /\ terms = processed.terms)

C20_Witness ==
    /\ upc = "failed"
    /\ processed.outcome = "returned"
    /\ Len(file_paths) = 2
    /\ \A i \in 1..2 : file_paths[i].raw_terms # <<>>
    /\ error.message = "Update failed: No glossary terms found in files"

\* C21: every term the validator accepts has a non-empty phrase and, under
\* the default schema, a definition that ends in `.`, `!` or `?`; and every
\* call increments exactly one of cleaned_count and rejected_count
AcceptedTermWellFormed ==
    normalized.called /\ normalized.term # <<>> =>
        /\ normalized.term[1].phrase # ""
        /\ (validator.schema = get_default_schema =>
               EndsWithPunctuation(normalized.term[1].definition))

CountersAdded ==
    (validator.cleaned_count - normalized.before.cleaned_count)
    + (validator.rejected_count - normalized.before.rejected_count)

C21_AcceptedWellFormedOneCounter ==
    /\ AcceptedTermWellFormed
    /\ (normalized.called => CountersAdded = 1)

\* C22: under a schema whose definition is not required, a record with a
\* non-empty phrase and an empty definition is accepted as a term whose
\* definition is the empty string, and is not counted as rejected
C22_PermissiveAcceptsEmptyDefinition ==
    /\ normalized.called
    /\ validator.schema = PermissiveSchema
    /\ clean_phrase(normalized.phrase) # ""
    /\ normalized.definition = ""
    => /\ normalized.term = <<GlossaryTerm(clean_phrase(normalized.phrase), "", EmptyDict)>>
       /\ validator.rejected_count = normalized.before.rejected_count

\* C23: preview_update, given files that process_files accepts and a
\* configuration that get_configuration returned, ends by returning a preview
\* record with its fields, and never calls update_configuration
PreviewFields ==
    {"files_to_process", "terms_extracted", "terms_current", "strategy",
     "terms_that_would_be_added", "would_make_changes"}

C23_PreviewCompletes ==
    /\ api_calls.update = 0
    /\ (upc \in {"failed", "done"} /\ processed.outcome = "returned"
        /\ api_calls.get = 1 /\ error.type # "APIError")
       => /\ upc = "done"
          /\ PreviewFields \subseteq DOMAIN result
          /\ result.would_make_changes \in BOOLEAN

\* C24: in one run of update_from_files get_configuration and
\* update_configuration are each called at most once; update_configuration
\* is called only after the reserved-id check, the building of a non-empty
\* term set, the return of get_configuration and the successful return of
\* merge_glossary_terms, in this order, and never in a dry run, without
\* changes or after a failed step
StepsBeforeWrite ==
    <<"config_id_checked", "terms_built", "get_configuration", "merge_glossary_terms">>

C24_CallOrder ==
    /\ api_calls.get <= 1
    /\ api_calls.update <= 1
    /\ api_calls.update = 1 =>
          /\ steps = Append(StepsBeforeWrite, "update_configuration")
          /\ config_id \notin RESERVED_CONFIG_IDS
          /\ terms # <<>>
          /\ api_calls.get = 1
          /\ outcome = "returned"
          /\ ~dry_run
          /\ has_changes(merge_stats)
    /\ upc = "write" => steps = StepsBeforeWrite

C24_Witness ==
    /\ api_calls.update = 1
    /\ upc = "done"
    /\ result.success

\* C25: _make_request re-attempts a request after every transient failure
\* (any 5xx status, a timeout, a transport error) until it succeeds or has
\* made max_retries + 1 attempts, sleeps 2^k seconds before the k-th
\* re-attempt, never re-attempts after a 4xx status, never makes more than
\* max_retries + 1 attempts, and ends by returning or raising
Attempts == Len(request.responses)

LastResponse == request.responses[Attempts]

Is5xx(response) == IsStatus(response) /\ response.status_code >= 500

Is4xx(response) ==
    IsStatus(response) /\ response.status_code >= 400 /\ response.status_code < 500

Ended == request.status \in {"returned", "raised"}

RequestLoopBounds ==
    request.status \in {"attempting", "returned", "raised"} =>
        /\ Attempts <= request.max_retries + 1
        /\ request.waits = [k \in 1..(IF Attempts = 0 THEN 0 ELSE Attempts - 1) |-> 2^k]
        /\ \A i \in 1..(Attempts - 1) : ~Is4xx(request.responses[i])
                                        /\ request.responses[i] # Status(200)
        /\ request.status = "attempting" => request.attempt = Attempts
                                            /\ Attempts < request.max_retries + 1
        /\ request.status = "returned" => LastResponse = Status(200)
        /\ request.status = "raised" => request.raised \in {"APIError", "HTTPStatusError"}

C26_StatsBalance ==
    Returned =>
        /\ merge_stats.terms_after
             = merge_stats.terms_before + merge_stats.terms_added - merge_stats.terms_removed
        /\ merge_stats.terms_provided = Len(terms)
        /\ merge_stats.terms_after = Len(StoredTerms(ReturnedDocument))

C26_Witness ==
    /\ Returned
    /\ strategy = "merge"
    /\ merge_stats.terms_before = 2
    /\ merge_stats.terms_added = 1
    /\ merge_stats.terms_updated = 1
    /\ merge_stats.terms_after = 3

C26_WitnessOverwrite ==
    /\ Returned
    /\ strategy = "overwrite"
    /\ merge_stats.terms_removed = 2
    /\ merge_stats.terms_added = 1

\* C27: a successful merge call leaves every entity other than the anchor,
\* every resource the anchor did not reference before the call and every
\* top-level key other than the two lists present and unchanged in the
\* returned document, entities and surviving resources in their order
UnreferencedBefore ==
    LET Unreferenced(r) == GetId(r) \notin Range(AnchorRefs(config_before))
    IN  SelectSeq(GetResourceList(config_before), Unreferenced)

C27_Frame ==
    Returned =>
        LET before == GetEntityList(config_before)
            after == GetEntityList(ReturnedDocument)
            anchor == AnchorIndex(config_before)
            resources == GetResourceList(ReturnedDocument)
        IN  /\ Len(after) = IF anchor = 0 THEN Len(before) + 1 ELSE Len(before)
            /\ \A i \in 1..Len(before) : i # anchor => after[i] = before[i]
            /\ Len(resources) >= Len(UnreferencedBefore)
            /\ SubSeq(resources, 1, Len(UnreferencedBefore)) = UnreferencedBefore
            /\ Len(resources) <= Len(UnreferencedBefore) + 1
            /\ ReturnedDocument.keys \ {"analysisEntityList", "resourceList"}
                 = config_before.keys \ {"analysisEntityList", "resourceList"}
            /\ ReturnedDocument.data = config_before.data

C27_Witness ==
    /\ Returned
    /\ AnchorIndex(config_before) = 2
    /\ AnchorRefs(config_before) # <<>>
    /\ Len(UnreferencedBefore) = 2
    /\ Len(GetResourceList(ReturnedDocument)) = 3

\* C28: for every document that passes validate_configuration and every
\* list of valid terms, a call with strategy `merge` or `overwrite` returns:
\* the final re-validation does not fail, also when another entity
\* references a resource of the anchor, and locating the anchor does not raise
C28_ValidInputMerges ==
    (pass >= 1 /\ validate_configuration(config_before).ok
     /\ strategy \in {"merge", "overwrite"})
    => Returned

\* C29: for a valid document, a term list and the strategy `merge` or
\* `overwrite`, get_merge_preview predicts what merge_glossary_terms returns
\* for the same inputs: terms_current is terms_before, terms_after is
\* terms_after and the number of terms_that_would_be_added is terms_added;
\* and get_merge_preview leaves the document unchanged, creating no anchor
C29_PreviewPredictsMerge ==
    /\ (preview.called /\ pass = 0) => heap["config"] = config_before
    /\ (preview.called /\ Returned) =>
          /\ preview.value.error = "none"
          /\ preview.value.terms_current = merge_stats.terms_before
          /\ preview.value.terms_after = merge_stats.terms_after
          /\ Len(preview.value.terms_that_would_be_added) = merge_stats.terms_added

C29_Witness ==
    /\ preview.called
    /\ Returned
    /\ strategy = "merge"
    /\ ~preview.value.glossary_entity_exists
    /\ merge_stats.terms_added = 2

C29_WitnessUpdated ==
    /\ preview.called
    /\ Returned
    /\ strategy = "merge"
    /\ merge_stats.terms_updated = 1
    /\ merge_stats.terms_added = 1
    /\ merge_stats.terms_before = 2

\* C30: when a header has both a phrase column and a definition column, the
\* two columns chosen are different columns, and each is chosen by the first
\* keyword in priority order that some column contains, then by column order
ChosenByPriority(keywords, col) ==
    \E k \in 1..Len(keywords), c \in 1..Len(columns.header) :
        /\ columns.header[c] = col
        /\ Contains(col, keywords[k])
        /\ \A j \in 1..(k - 1), d \in 1..Len(columns.header) :
              ~Contains(columns.header[d], keywords[j])
        /\ \A d \in 1..(c - 1) : ~Contains(columns.header[d], keywords[k])

ChosenInOrder ==
    /\ ChosenByPriority(phrase_keywords, columns.phrase_col)
    /\ ChosenByPriority(definition_keywords, columns.definition_col)

C30_DistinctColumns ==
    columns.found = "both" =>
        /\ columns.phrase_col # columns.definition_col
        /\ ChosenInOrder

\* the amended claim: one column is chosen twice when it is the first match
\* of both searches, and only then
C30_ColumnsChosenInOrder ==
    columns.found = "both" =>
        /\ ChosenInOrder
        /\ columns.phrase_col = columns.definition_col
           <=> \E col \in Range(columns.header) :
                  /\ ChosenByPriority(phrase_keywords, col)
                  /\ ChosenByPriority(definition_keywords, col)

C30_Witness ==
    /\ columns.found = "both"
    /\ columns.header = <<"name", "description", "term">>
    /\ columns.phrase_col = "term"
    /\ columns.definition_col = "description"
====
